---------------------------- MODULE Spec2Model ----------------------------
(***************************************************************************)
(* A model of server.js: the language heuristic detectLangFromText, the    *)
(* POST /ask handler around the upstream chat-completion call, and the     *)
(* listenOn port-fallback loop.                                            *)
(*                                                                         *)
(* JavaScript strings that the code trims, lower-cases or matches against  *)
(* a regular expression are sequences of UTF-16 code units (naturals).     *)
(* Strings the code only passes along (error details, labels, log lines)   *)
(* are TLA+ strings.                                                       *)
(***************************************************************************)
EXTENDS Integers, Sequences, FiniteSets, TLC

VARIABLES
    env,            \* process.env as read at startup
    ALLOWED_POINT,  \* const ALLOWED_POINT (line 24)
    MODEL,          \* const MODEL (line 25)
    proc,           \* the process: "start", "binding", "listening", "exited"
    exitCode,       \* the status the process exited with, -1 while it runs
    port,           \* the port of the current listenOn call
    tried,          \* the tried argument of the current listenOn call
    attempts,       \* the ports app.listen was called with, in order
    errors,         \* the err.code of every "error" event, in order
    console,        \* the lines written by console.log / console.error
    reqs,           \* per request: the handler's position and what it received
    calls,          \* per request: the upstream calls it issued, in order
    responses,      \* per request: the responses it sent, in order
    text,           \* the detector's input
    label,          \* the detector's output
    phase           \* "input" before detectLangFromText has run, "done" after

vars == <<env, ALLOWED_POINT, MODEL, proc, exitCode, port, tried, attempts,
          errors, console, reqs, calls, responses, text, label, phase>>

-----------------------------------------------------------------------------
(* Bounds of the model.                                                    *)

\* The longest input of the detector, in fragments of Fragments.
MaxFrags == 3

\* The number of POST /ask requests that may be in flight together.
MaxReq == 2

-----------------------------------------------------------------------------
(* String primitives: String.prototype.trim, toLowerCase, and the parts of *)
(* regular-expression matching that lines 35-38 use.                       *)

\* WhiteSpace and LineTerminator code units, the ones trim() strips.
WhiteSpace ==
    {9, 10, 11, 12, 13, 32, 160, 5760, 8232, 8233, 8239, 8287, 12288, 65279}
        \cup (8192..8202)

RECURSIVE TrimStart(_)
TrimStart(s) ==
    IF s # <<>> /\ Head(s) \in WhiteSpace THEN TrimStart(Tail(s)) ELSE s

RECURSIVE TrimEnd(_)
TrimEnd(s) ==
    IF s # <<>> /\ s[Len(s)] \in WhiteSpace
    THEN TrimEnd(SubSeq(s, 1, Len(s) - 1))
    ELSE s

\* String.prototype.trim
trim(s) == TrimEnd(TrimStart(s))

\* toLowerCase of one code unit (Basic Latin and Latin-1 Supplement).
LowerChar(c) ==
    IF (c >= 65 /\ c <= 90) \/ (c >= 192 /\ c <= 222 /\ c # 215)
    THEN c + 32
    ELSE c

\* String.prototype.toLowerCase
toLowerCase(s) == [i \in 1..Len(s) |-> LowerChar(s[i])]

\* Canonicalize of a case-insensitive, non-unicode regular expression: the
\* code unit's upper case when that is a single code unit (223, sharp s,
\* upper-cases to two and is kept).
Canonicalize(c) ==
    IF (c >= 97 /\ c <= 122) \/ (c >= 224 /\ c <= 254 /\ c # 247)
    THEN c - 32
    ELSE IF c = 255 THEN 376
    ELSE IF c = 181 THEN 924
    ELSE c

\* /[...]/i.test(s): some code unit of s is in the class, case folded.
ClassTest(s, class) ==
    \E i \in 1..Len(s) : \E x \in class : Canonicalize(s[i]) = Canonicalize(x)

\* \w of a non-unicode regular expression: [A-Za-z0-9_].
IsWordChar(c) ==
    (c >= 48 /\ c <= 57) \/ (c >= 65 /\ c <= 90) \/ c = 95
        \/ (c >= 97 /\ c <= 122)

\* Whether the code unit at index i of s exists and is a word character.
WordAt(s, i) == i >= 1 /\ i <= Len(s) /\ IsWordChar(s[i])

\* \b between index p and index p + 1 of s (p = 0 is the start of s).
Boundary(s, p) == WordAt(s, p) # WordAt(s, p + 1)

\* kw matches s from index i, case folded.
LiteralAt(s, kw, i) ==
    /\ i + Len(kw) - 1 <= Len(s)
    /\ \A k \in 1..Len(kw) : Canonicalize(s[i + k - 1]) = Canonicalize(kw[k])

\* A variant that forgets the two \b assertions: a plain substring search.
KeywordTestNoBoundary(s, kws) ==
    \E kw \in kws : \E i \in 1..Len(s) : LiteralAt(s, kw, i)

\* /\b(k1|k2|...)\b/i.test(s)
KeywordTest(s, kws) ==
    \E kw \in kws : \E i \in 1..Len(s) :
        /\ Boundary(s, i - 1)
        /\ LiteralAt(s, kw, i)
        /\ Boundary(s, i + Len(kw) - 1)

-----------------------------------------------------------------------------
(* The four rule groups of detectLangFromText.                             *)

\* [ãõáéíóúâêôàç] (line 35), as code units
PortugueseChars == {227, 245, 225, 233, 237, 243, 250, 226, 234, 244, 224, 231}

\* artigos | quando | como | porque | por que (line 35)
PortugueseWords ==
    { <<97, 114, 116, 105, 103, 111, 115>>,
      <<113, 117, 97, 110, 100, 111>>,
      <<99, 111, 109, 111>>,
      <<112, 111, 114, 113, 117, 101>>,
      <<112, 111, 114, 32, 113, 117, 101>> }

\* [ñáéíóú¡¿] (line 36): n-tilde, five acute vowels, inverted ! and ?
SpanishChars == {241, 225, 233, 237, 243, 250, 161, 191}

\* artículos | cuándo | cómo | por qué (line 36)
SpanishWords ==
    { <<97, 114, 116, 237, 99, 117, 108, 111, 115>>,
      <<99, 117, 225, 110, 100, 111>>,
      <<99, 243, 109, 111>>,
      <<112, 111, 114, 32, 113, 117, 233>> }

\* [àèéìòóùçîïë] (line 37)
ItalianChars == {224, 232, 233, 236, 242, 243, 249, 231, 238, 239, 235}

\* perché | quando | come | articoli (line 37)
ItalianWords ==
    { <<112, 101, 114, 99, 104, 233>>,
      <<113, 117, 97, 110, 100, 111>>,
      <<99, 111, 109, 101>>,
      <<97, 114, 116, 105, 99, 111, 108, 105>> }

\* [àâçéèêîïôûù] (line 38)
FrenchChars == {224, 226, 231, 233, 232, 234, 238, 239, 244, 251, 249}

\* pourquoi | quand | comment | articles (line 38)
FrenchWords ==
    { <<112, 111, 117, 114, 113, 117, 111, 105>>,
      <<113, 117, 97, 110, 100>>,
      <<99, 111, 109, 109, 101, 110, 116>>,
      <<97, 114, 116, 105, 99, 108, 101, 115>> }

\* A variant with the French rule moved ahead of the others.
detectFrenchFirst(txt) ==
    LET t == trim(txt)
        low == toLowerCase(t)
    IN  IF ClassTest(t, FrenchChars) \/ KeywordTest(low, FrenchWords)
        THEN "French"
        ELSE IF ClassTest(t, PortugueseChars) \/ KeywordTest(low, PortugueseWords)
        THEN "Portuguese"
        ELSE IF ClassTest(t, SpanishChars) \/ KeywordTest(low, SpanishWords)
        THEN "Spanish"
        ELSE IF ClassTest(t, ItalianChars) \/ KeywordTest(low, ItalianWords)
        THEN "Italian"
        ELSE "English"

\* function detectLangFromText(text = "")
detectLangFromText(txt) ==
    LET t == trim(txt)
        low == toLowerCase(t)
    IN  IF ClassTest(t, PortugueseChars) \/ KeywordTest(low, PortugueseWords)
        THEN "Portuguese"
        ELSE IF ClassTest(t, SpanishChars) \/ KeywordTest(low, SpanishWords)
        THEN "Spanish"
        ELSE IF ClassTest(t, ItalianChars) \/ KeywordTest(low, ItalianWords)
        THEN "Italian"
        ELSE IF ClassTest(t, FrenchChars) \/ KeywordTest(low, FrenchWords)
        THEN "French"
        ELSE "English"

-----------------------------------------------------------------------------
(* Values the detector is run on.                                          *)

\* "Por que os artigos são importantes?"
RefPortuguese ==
    <<80, 111, 114, 32, 113, 117, 101, 32, 111, 115, 32, 97, 114, 116, 105,
      103, 111, 115, 32, 115, 227, 111, 32, 105, 109, 112, 111, 114, 116, 97,
      110, 116, 101, 115, 63>>

\* "¿Por qué uso artículos?"
RefSpanish ==
    <<191, 80, 111, 114, 32, 113, 117, 233, 32, 117, 115, 111, 32, 97, 114,
      116, 237, 99, 117, 108, 111, 115, 63>>

\* "Perché uso gli articoli?"
RefItalian ==
    <<80, 101, 114, 99, 104, 233, 32, 117, 115, 111, 32, 103, 108, 105, 32,
      97, 114, 116, 105, 99, 111, 108, 105, 63>>

\* "Pourquoi utiliser des articles?"
RefFrench ==
    <<80, 111, 117, 114, 113, 117, 111, 105, 32, 117, 116, 105, 108, 105, 115,
      101, 114, 32, 100, 101, 115, 32, 97, 114, 116, 105, 99, 108, 101, 115,
      63>>

\* "Why do we use articles?"
RefEnglish ==
    <<87, 104, 121, 32, 100, 111, 32, 119, 101, 32, 117, 115, 101, 32, 97,
      114, 116, 105, 99, 108, 101, 115, 63>>

ReferenceSentences ==
    {RefPortuguese, RefSpanish, RefItalian, RefFrench, RefEnglish}

\* The pieces the other inputs are made of: a space, a tab, "x", "7", "por",
\* "que", "QUE", "quando", "come", "articles", "pourquoi", c-cedilla in both
\* cases, n-tilde and e-acute.
Fragments ==
    { <<32>>, <<9>>, <<120>>, <<55>>,
      <<112, 111, 114>>, <<113, 117, 101>>, <<81, 85, 69>>,
      <<113, 117, 97, 110, 100, 111>>,
      <<99, 111, 109, 101>>,
      <<97, 114, 116, 105, 99, 108, 101, 115>>,
      <<112, 111, 117, 114, 113, 117, 111, 105>>,
      <<231>>, <<199>>, <<241>>, <<233>> }

RECURSIVE Concat(_)
Concat(fs) == IF fs = <<>> THEN <<>> ELSE Head(fs) \o Concat(Tail(fs))

\* Every concatenation of at most MaxFrags fragments, and the five
\* reference sentences.
Texts ==
    ReferenceSentences
        \cup { Concat(fs) : fs \in UNION { [1..n -> Fragments] : n \in 0..MaxFrags } }

-----------------------------------------------------------------------------
(* The detector on its own: an input is drawn, detectLangFromText runs.    *)

ServerUnused ==
    /\ env = [OPENAI_API_KEY |-> "unset", TOPIC |-> "unset",
              OPENAI_MODEL |-> "unset", PORT |-> 0]
    /\ ALLOWED_POINT = "unset"
    /\ MODEL = "unset"
    /\ proc = "unused"
    /\ exitCode = -1
    /\ port = 0
    /\ tried = 0
    /\ attempts = <<>>
    /\ errors = <<>>
    /\ console = <<>>
    /\ reqs = <<>>
    /\ calls = <<>>
    /\ responses = <<>>

DetectorUnused ==
    /\ text = <<>>
    /\ label = "none"
    /\ phase = "unused"

serverVars == <<env, ALLOWED_POINT, MODEL, proc, exitCode, port, tried,
                attempts, errors, console, reqs, calls, responses>>

detectorVars == <<text, label, phase>>

InitDetect ==
    /\ ServerUnused
    /\ text \in Texts
    /\ label = "none"
    /\ phase = "input"

\* One call of detectLangFromText(text).
Detect ==
    /\ phase = "input"
    /\ label' = detectLangFromText(text)
    /\ phase' = "done"
    /\ UNCHANGED <<text, serverVars>>

NextDetect == Detect

SpecDetect == InitDetect /\ [][NextDetect]_vars

-----------------------------------------------------------------------------
(* Startup: the configuration read from the environment (lines 18-25, 103) *)
(* and the listenOn port-fallback loop (lines 105-123).                    *)

\* process.env.PORT || 3000 (line 103)
DefaultPort == 3000

\* tried < 5 (line 112)
MaxRetries == 5

\* The largest port app.listen accepts; a larger one makes it throw
\* ERR_SOCKET_BAD_PORT instead of emitting an "error" event.
MaxPortNumber == 65535

\* process.exit(1) (lines 20, 118), also the status of an uncaught exception
ExitFailure == 1

\* Number(string) for a string of decimal digits.
RECURSIVE Number(_)
Number(digits) ==
    IF digits = <<>>
    THEN 0
    ELSE 10 * Number(SubSeq(digits, 1, Len(digits) - 1))
             + (digits[Len(digits)] - 48)

\* The environments the process is started in. An unset variable reads as
\* the empty string, which || treats like an unset one. PORT is unset,
\* "8080" or "65533".
Envs ==
    [ OPENAI_API_KEY : {"", "sk-test"},
      TOPIC : {"", "past simple"},
      OPENAI_MODEL : {"", "gpt-4o"},
      PORT : { <<>>, <<56, 48, 56, 48>>, <<54, 53, 53, 51, 51>> } ]

\* const BASE_PORT = Number(process.env.PORT || 3000)
BASE_PORT == IF env.PORT # <<>> THEN Number(env.PORT) ELSE DefaultPort

\* process.env.TOPIC || "articles (a / an / the)"
TopicOf(e) == IF e.TOPIC # "" THEN e.TOPIC ELSE "articles (a / an / the)"

\* process.env.OPENAI_MODEL || "gpt-4o-mini"
ModelOf(e) == IF e.OPENAI_MODEL # "" THEN e.OPENAI_MODEL ELSE "gpt-4o-mini"

\* The template literal of lines 43-61, cut where ALLOWED_POINT is spliced in.
SYSTEM_PROMPT ==
    << "You are a multilingual English teacher. Current grammar focus: ",
       ALLOWED_POINT,
       ". Rules: 1) ... 2) If the student's question is NOT about ",
       ALLOWED_POINT,
       ": ... 3) If the student's question IS about ",
       ALLOWED_POINT,
       ": ... 4) ... 5) ..." >>

RequestsIdle ==
    /\ reqs = <<>>
    /\ calls = <<>>
    /\ responses = <<>>

InitListen ==
    /\ env \in Envs
    /\ ALLOWED_POINT = "unset"
    /\ MODEL = "unset"
    /\ proc = "start"
    /\ exitCode = -1
    /\ port = 0
    /\ tried = 0
    /\ attempts = <<>>
    /\ errors = <<>>
    /\ console = <<>>
    /\ RequestsIdle
    /\ DetectorUnused

\* A variant of the retry test that allows one retry more.
RetryAllowedOffByOne(code, n) == code = "EADDRINUSE" /\ n <= MaxRetries

\* err.code === "EADDRINUSE" && tried < 5
RetryAllowed(code, n) == code = "EADDRINUSE" /\ n < MaxRetries

\* listenOn(p, n): app.listen(p) either throws at once, which nothing
\* catches and ends the process, or starts binding p.
listenOn(p, n) ==
    IF p < 0 \/ p > MaxPortNumber
    THEN /\ proc' = "exited"
         /\ exitCode' = ExitFailure
         /\ UNCHANGED <<port, tried, attempts>>
    ELSE /\ proc' = "binding"
         /\ port' = p
         /\ tried' = n
         /\ attempts' = Append(attempts, p)
         /\ UNCHANGED exitCode

\* The module's top-level code with the credential missing (lines 18-21).
StartNoKey ==
    /\ proc = "start"
    /\ env.OPENAI_API_KEY = ""
    /\ console' = Append(console, <<"Missing OPENAI_API_KEY in .env">>)
    /\ proc' = "exited"
    /\ exitCode' = ExitFailure
    /\ UNCHANGED <<env, ALLOWED_POINT, MODEL, port, tried, attempts, errors,
                   reqs, calls, responses, detectorVars>>

\* The module's top-level code with the credential present: the constants
\* are set and listenOn(BASE_PORT) is called (lines 24-25, 103, 123).
Start ==
    /\ proc = "start"
    /\ env.OPENAI_API_KEY # ""
    /\ ALLOWED_POINT' = TopicOf(env)
    /\ MODEL' = ModelOf(env)
    /\ listenOn(BASE_PORT, 0)
    /\ UNCHANGED <<env, errors, console, reqs, calls, responses, detectorVars>>

\* The "listening" event of the pending app.listen (lines 107-110).
OnListening ==
    /\ proc = "binding"
    /\ proc' = "listening"
    /\ console' = Append(console, <<"Teacher running on http://localhost:", port>>)
    /\ UNCHANGED <<env, ALLOWED_POINT, MODEL, exitCode, port, tried, attempts,
                   errors, reqs, calls, responses, detectorVars>>

\* The "error" event of the pending app.listen (lines 111-120).
OnError(code) ==
    /\ proc = "binding"
    /\ errors' = Append(errors, code)
    /\ IF RetryAllowed(code, tried)
       THEN /\ console' = Append(console, <<"Porta ocupada. Tentando", port, port + 1>>)
            /\ listenOn(port + 1, tried + 1)
       ELSE /\ console' = Append(console, <<"Server listen error:", code>>)
            /\ proc' = "exited"
            /\ exitCode' = ExitFailure
            /\ UNCHANGED <<port, tried, attempts>>
    /\ UNCHANGED <<env, ALLOWED_POINT, MODEL, reqs, calls, responses,
                   detectorVars>>

\* The err.code values a failed bind is modelled with.
ListenErrorCodes == {"EADDRINUSE", "EACCES"}

NextListen ==
    \/ StartNoKey
    \/ Start
    \/ OnListening
    \/ \E code \in ListenErrorCodes : OnError(code)

SpecListen == InitListen /\ [][NextListen]_vars

\* The top-level code runs, and a pending app.listen emits one of its two
\* events.
FairListen ==
    /\ SpecListen
    /\ WF_vars(StartNoKey \/ Start)
    /\ WF_vars(OnListening \/ \E code \in ListenErrorCodes : OnError(code))

-----------------------------------------------------------------------------
(* JavaScript values the POST /ask handler tests with ||, ! and ?.         *)

Undefined == [t |-> "undefined"]

Null == [t |-> "null"]

Num(n) == [t |-> "number", n |-> n]

\* A string: v is a sequence of code units, or a TLA+ string where the code
\* never looks inside it.
Str(s) == [t |-> "string", v |-> s]

\* An object known only by its JSON text.
Json(j) == [t |-> "object", json |-> j]

\* What the operand of ?. must not be.
Nullish(v) == v.t \in {"undefined", "null"}

\* ToBoolean, as ||, ! and if apply it.
Truthy(v) ==
    CASE v.t \in {"undefined", "null"} -> FALSE
      [] v.t = "number" -> v.n # 0
      [] v.t = "string" -> Len(v.v) > 0
      [] OTHER -> TRUE

\* JSON.stringify of an object known by its JSON text.
JSONstringify(v) == v.json

-----------------------------------------------------------------------------
(* The POST /ask handler (lines 64-94).                                    *)

Requests == 1..MaxReq

\* max_tokens: 700 (line 80)
MaxTokens == 700

\* The template literal of line 71, cut where detected is spliced in.
LANG_HINT(detected) ==
    << "Student language detected: ", detected,
       ". You MUST reply ONLY in ", detected,
       ", including refusals and guidance. Never answer in any other language." >>

\* A variant that sends the fixed prompt ahead of the language directive.
UpstreamMessagesPromptFirst(detected, userText) ==
    << [role |-> "system", content |-> SYSTEM_PROMPT],
       [role |-> "system", content |-> LANG_HINT(detected)],
       [role |-> "user", content |-> userText] >>

\* The messages array of lines 75-79.
UpstreamMessages(detected, userText) ==
    << [role |-> "system", content |-> LANG_HINT(detected)],
       [role |-> "system", content |-> SYSTEM_PROMPT],
       [role |-> "user", content |-> userText] >>

\* The argument of openai.chat.completions.create (lines 73-82).
CreateCall(userText) ==
    [ model |-> MODEL,
      messages |-> UpstreamMessages(detectLangFromText(userText), userText),
      max_tokens |-> MaxTokens,
      temperature |-> "0.2" ]

\* res.status(code).json(body)
Response(code, body) == [status |-> code, body |-> body]

\* What one run of the handler, up to its await or to its end, does: the
\* upstream calls it issues, the responses it sends, the lines it logs, and
\* whether it is left waiting for the upstream call.
Step(kind, issued, sent, logged) ==
    [kind |-> kind, calls |-> issued, sent |-> sent, logged |-> logged]

\* A variant of the catch block that takes the exception message ahead of
\* the service's payload.
ErrorDetailMessageFirst(err) ==
    LET data == IF Nullish(err.response) THEN Undefined ELSE err.response.data
    IN  IF Truthy(err.message) THEN err.message
        ELSE IF Truthy(data) THEN data
        ELSE Str(err.string)

\* err?.response?.data || err?.message || String(err) (line 90)
ErrorDetail(err) ==
    LET data == IF Nullish(err.response) THEN Undefined ELSE err.response.data
    IN  IF Truthy(data) THEN data
        ELSE IF Truthy(err.message) THEN err.message
        ELSE Str(err.string)

\* A variant of the catch block that logs and sends nothing.
HandlerCatchSilent(err) ==
    Step("return", <<>>, <<>>, << <<"LLM error:", ErrorDetail(err)>> >>)

\* The catch block (lines 89-93).
HandlerCatch(err) ==
    LET detail == ErrorDetail(err)
        error == IF detail.t = "string" THEN detail.v ELSE JSONstringify(detail)
    IN  Step("return", <<>>,
             << Response(500, [error |-> error]) >>,
             << <<"LLM error:", detail>> >>)

\* The TypeError of calling .trim on a value that has none (line 66).
TrimTypeError ==
    [ response |-> Undefined,
      message |-> Str("(req.body?.message || \"\").trim is not a function"),
      string |-> "TypeError: (req.body?.message || \"\").trim is not a function" ]

\* A variant of line 66 without the .trim() call.
UserTextUntrimmed(message) ==
    IF Truthy(message) THEN message.v ELSE <<>>

\* (req.body?.message || "").trim() for a message that is a string or falsy.
UserText(message) ==
    trim(IF Truthy(message) THEN message.v ELSE <<>>)

\* The handler from its entry to the await of line 73, or to its return
\* (lines 65-82, and 89-93 when line 66 throws).
HandlerStart(message) ==
    IF Truthy(message) /\ message.t # "string"
    THEN HandlerCatch(TrimTypeError)
    ELSE LET userText == UserText(message)
         IN  IF userText = <<>>
             THEN Step("return", <<>>,
                       << Response(400, [error |-> "Empty message"]) >>, <<>>)
             ELSE Step("await", << CreateCall(userText) >>, <<>>, <<>>)

\* A variant of line 84 without the .trim() call.
AnswerUntrimmed(chatResponse) ==
    LET choices == chatResponse.choices
        first == IF Nullish(choices) \/ Len(choices.items) = 0
                 THEN Undefined ELSE choices.items[1]
        message == IF Nullish(first) THEN Undefined ELSE first.message
        content == IF Nullish(message) THEN Undefined ELSE message.content
    IN  content

\* chatResponse.choices?.[0]?.message?.content?.trim() (line 84)
Answer(chatResponse) ==
    LET choices == chatResponse.choices
        first == IF Nullish(choices) \/ Len(choices.items) = 0
                 THEN Undefined ELSE choices.items[1]
        message == IF Nullish(first) THEN Undefined ELSE first.message
        content == IF Nullish(message) THEN Undefined ELSE message.content
    IN  IF Nullish(content) THEN Undefined ELSE Str(trim(content.v))

\* The handler after the awaited call has returned (lines 84-88).
HandlerResume(chatResponse) ==
    LET answer == Answer(chatResponse)
    IN  IF ~Truthy(answer)
        THEN Step("return", <<>>,
                  << Response(502, [error |-> "No answer from model"]) >>, <<>>)
        ELSE Step("return", <<>>, << Response(200, [answer |-> answer.v]) >>, <<>>)

-----------------------------------------------------------------------------
(* The handler's inputs: request bodies and outcomes of the upstream call. *)

\* req.body?.message: missing, null, 0, 5, "", " \t", " hi " and
\* "\n" c-cedilla "a".
Messages ==
    { Undefined, Null, Num(0), Num(5),
      Str(<<>>), Str(<<32, 9>>),
      Str(<<32, 104, 105, 32>>), Str(<<10, 231, 97>>) }

Arr(items) == [t |-> "array", items |-> items]

Choice(message) == [t |-> "object", message |-> message]

Content(content) == [t |-> "object", content |-> content]

\* What the awaited call returns: no choices field, an empty choice list, a
\* first choice without message, and first choices whose content is
\* missing, null, "", " \n", and " ok " (followed by a second choice).
ChatResponses ==
    { [choices |-> Undefined],
      [choices |-> Arr(<<>>)],
      [choices |-> Arr(<< Choice(Undefined) >>)],
      [choices |-> Arr(<< Choice(Content(Undefined)) >>)],
      [choices |-> Arr(<< Choice(Content(Null)) >>)],
      [choices |-> Arr(<< Choice(Content(Str(<<>>))) >>)],
      [choices |-> Arr(<< Choice(Content(Str(<<32, 10>>))) >>)],
      [choices |-> Arr(<< Choice(Content(Str(<<32, 111, 107, 32>>))),
                         Choice(Content(Str(<<110, 111>>))) >>)] }

\* String(err) of a thrown value with the given message property.
StringOf(message) ==
    IF message = Undefined THEN "[object Object]"
    ELSE IF message.v = "" THEN "Error"
    ELSE "Error: " \o message.v

\* What the awaited call throws: response is missing or carries data that
\* is "", a string or an object; message is missing, "" or a string.
UpstreamErrors ==
    { [response |-> rsp, message |-> msg, string |-> StringOf(msg)] :
        rsp \in {Undefined}
                  \cup { [t |-> "object", data |-> d] :
                           d \in { Str(""), Str("quota exceeded"),
                                   Json("{\"error\":\"rate limit\"}") } },
        msg \in { Undefined, Str(""), Str("Request failed") } }

\* The environments of a running server: the credential is set, the port
\* is the default, topic and model are the defaults or both configured.
AskEnvs ==
    { e \in Envs :
        /\ e.OPENAI_API_KEY # ""
        /\ e.PORT = <<>>
        /\ (e.TOPIC = "") = (e.OPENAI_MODEL = "") }

NoOutcome == [kind |-> "none"]

InitAsk ==
    /\ env \in AskEnvs
    /\ ALLOWED_POINT = TopicOf(env)
    /\ MODEL = ModelOf(env)
    /\ proc = "listening"
    /\ exitCode = -1
    /\ port = BASE_PORT
    /\ tried = 0
    /\ attempts = <<BASE_PORT>>
    /\ errors = <<>>
    /\ console = << <<"Teacher running on http://localhost:", BASE_PORT>> >>
    /\ reqs = [r \in Requests |->
                 [pc |-> "idle", message |-> Undefined, outcome |-> NoOutcome]]
    /\ calls = [r \in Requests |-> <<>>]
    /\ responses = [r \in Requests |-> <<>>]
    /\ DetectorUnused

\* A variant in which res is one object shared by all requests.
SendShared(r, sent) == responses' = [responses EXCEPT ![1] = @ \o sent]

\* res.status(...).json(...) on the res of request r (lines 67, 85, 88, 92)
Send(r, sent) == responses' = [responses EXCEPT ![r] = @ \o sent]

\* The effects of one run of the handler of request r.
Apply(r, step) ==
    /\ calls' = [calls EXCEPT ![r] = @ \o step.calls]
    /\ Send(r, step.sent)
    /\ console' = console \o step.logged

startupVars == <<env, ALLOWED_POINT, MODEL, proc, exitCode, port, tried,
                 attempts, errors>>

\* POST /ask arrives with req.body.message = m: the handler runs to its
\* await or to its return. Requests are numbered as they arrive.
Receive(r, m) ==
    /\ proc = "listening"
    /\ reqs[r].pc = "idle"
    /\ \A q \in Requests : q < r => reqs[q].pc # "idle"
    /\ LET step == HandlerStart(m)
       IN  /\ reqs' = [reqs EXCEPT ![r] =
                         [pc |-> IF step.kind = "await" THEN "awaiting" ELSE "done",
                          message |-> m, outcome |-> NoOutcome]]
           /\ Apply(r, step)
    /\ UNCHANGED <<startupVars, detectorVars>>

\* The awaited call of request r returns chatResponse.
Resolve(r, chatResponse) ==
    /\ reqs[r].pc = "awaiting"
    /\ reqs' = [reqs EXCEPT ![r].pc = "done",
                            ![r].outcome = [kind |-> "resolved", value |-> chatResponse]]
    /\ Apply(r, HandlerResume(chatResponse))
    /\ UNCHANGED <<startupVars, detectorVars>>

\* The awaited call of request r throws err.
Reject(r, err) ==
    /\ reqs[r].pc = "awaiting"
    /\ reqs' = [reqs EXCEPT ![r].pc = "done",
                            ![r].outcome = [kind |-> "rejected", value |-> err]]
    /\ Apply(r, HandlerCatch(err))
    /\ UNCHANGED <<startupVars, detectorVars>>

NextAsk ==
    \/ \E r \in Requests, m \in Messages : Receive(r, m)
    \/ \E r \in Requests, chatResponse \in ChatResponses : Resolve(r, chatResponse)
    \/ \E r \in Requests, err \in UpstreamErrors : Reject(r, err)

SpecAsk == InitAsk /\ [][NextAsk]_vars

-----------------------------------------------------------------------------
(* Claims about the detector.                                              *)

\* C5: detect returns Portuguese, Spanish, Italian, French and English for
\* the five reference sentences, in that order.
C5_ReferenceLabels ==
    phase = "done" =>
        /\ (text = RefPortuguese => label = "Portuguese")
        /\ (text = RefSpanish => label = "Spanish")
        /\ (text = RefItalian => label = "Italian")
        /\ (text = RefFrench => label = "French")
        /\ (text = RefEnglish => label = "English")

HasCedilla(s) == \E i \in 1..Len(s) : s[i] \in {231, 199}

\* C6: every text that contains c-cedilla, in either case, is labelled
\* Portuguese whatever else it contains.
C6_CedillaIsPortuguese ==
    (phase = "done" /\ HasCedilla(text)) => label = "Portuguese"

\* A labelled text with a c-cedilla, the French keyword "pourquoi" and the
\* Spanish n-tilde.
C6_Witness ==
    /\ phase = "done"
    /\ HasCedilla(text)
    /\ \E i \in 1..Len(text) :
           LiteralAt(text, <<112, 111, 117, 114, 113, 117, 111, 105>>, i)
    /\ \E i \in 1..Len(text) : text[i] = 241
    /\ label = "Portuguese"

\* ASCII letters, digits and the space.
IsPlainAscii(s) ==
    \A i \in 1..Len(s) :
        \/ s[i] = 32
        \/ (s[i] >= 48 /\ s[i] <= 57)
        \/ (s[i] >= 65 /\ s[i] <= 90)
        \/ (s[i] >= 97 /\ s[i] <= 122)

ListedKeywords ==
    PortugueseWords \cup SpanishWords \cup ItalianWords \cup FrenchWords

\* kw stands in s as a whole word: it starts at the start of s or after a
\* space and ends at the end of s or before a space, letters compared
\* without regard to case.
WholeWordIn(s, kw) ==
    \E i \in 1..Len(s) :
        /\ i + Len(kw) - 1 <= Len(s)
        /\ \A k \in 1..Len(kw) : LowerChar(s[i + k - 1]) = kw[k]
        /\ (i = 1 \/ s[i - 1] = 32)
        /\ (i + Len(kw) - 1 = Len(s) \/ s[i + Len(kw)] = 32)

IsBlank(s) == \A i \in 1..Len(s) : s[i] \in WhiteSpace

\* C7: a text of ASCII letters, digits and spaces with none of the listed
\* keywords as a whole word is labelled English, and so are the empty and
\* the whitespace-only text.
C7_PlainTextIsEnglish ==
    phase = "done" =>
        /\ (IsPlainAscii(text) /\ \A kw \in ListedKeywords : ~WholeWordIn(text, kw))
               => label = "English"
        /\ (IsBlank(text) => label = "English")

\* A labelled plain text in which "quando" occurs inside a longer word.
C7_Witness ==
    /\ phase = "done"
    /\ IsPlainAscii(text)
    /\ \A kw \in ListedKeywords : ~WholeWordIn(text, kw)
    /\ \E i \in 1..Len(text) : LiteralAt(text, <<113, 117, 97, 110, 100, 111>>, i)
    /\ label = "English"

-----------------------------------------------------------------------------
(* Claims about the POST /ask handler.                                     *)

\* s without its leading and trailing whitespace: the stretch from its first
\* to its last code unit that is not whitespace.
Stripped(s) ==
    LET keep == {i \in 1..Len(s) : s[i] \notin WhiteSpace}
    IN  IF keep = {}
        THEN <<>>
        ELSE SubSeq(s, CHOOSE i \in keep : \A j \in keep : i <= j,
                       CHOOSE i \in keep : \A j \in keep : j <= i)

Received(r) == reqs[r].pc # "idle"

\* The message is missing, the empty string or only whitespace.
EmptyMessage(m) == m = Undefined \/ (m.t = "string" /\ IsBlank(m.v))

\* The message is a string with something other than whitespace in it.
TextMessage(m) == m.t = "string" /\ ~IsBlank(m.v)

\* C1: a request whose message is missing, empty or only whitespace is
\* answered 400 {"error": "Empty message"} and issues no upstream call.
C1_EmptyMessageRejected ==
    \A r \in Requests :
        (Received(r) /\ EmptyMessage(reqs[r].message)) =>
            /\ responses[r] = << [status |-> 400, body |-> [error |-> "Empty message"]] >>
            /\ calls[r] = <<>>

\* A handled request whose message is whitespace, and one whose message is
\* missing.
C1_Witness ==
    \E r, q \in Requests :
        /\ reqs[r].pc = "done" /\ reqs[r].message = Str(<<32, 9>>)
        /\ reqs[q].pc = "done" /\ reqs[q].message = Undefined
        /\ responses[r][1].status = 400

\* The texts among the messages a request may carry.
MessageTexts == {m.v : m \in {x \in Messages : x.t = "string"}}

\* Each such text trimmed, and the detector's label for the trimmed text.
TrimmedInput == [s \in MessageTexts |-> Stripped(s)]

DetectedLabel == [s \in MessageTexts |-> detectLangFromText(TrimmedInput[s])]

\* C2: a request whose message is non-empty after trimming issues exactly
\* one upstream call, before and after that call settles, whose messages
\* are the language directive for detect(userText), the fixed system prompt
\* and the trimmed input as the user entry, in this order.
C2_OneUpstreamCall ==
    \A r \in Requests :
        (Received(r) /\ TextMessage(reqs[r].message)) =>
            /\ Len(calls[r]) = 1
            /\ LET msgs == calls[r][1].messages
                   input == TrimmedInput[reqs[r].message.v]
               IN  /\ Len(msgs) = 3
                   /\ msgs[1].role = "system"
                   /\ msgs[1].content[1] = "Student language detected: "
                   /\ msgs[1].content[2] = DetectedLabel[reqs[r].message.v]
                   /\ msgs[2] = [role |-> "system", content |-> SYSTEM_PROMPT]
                   /\ msgs[3] = [role |-> "user", content |-> input]

\* A request with an untrimmed message whose upstream call has failed, and
\* one whose call has returned.
C2_Witness ==
    \E r, q \in Requests :
        /\ reqs[r].message = Str(<<32, 104, 105, 32>>)
        /\ reqs[r].outcome.kind = "rejected"
        /\ reqs[q].outcome.kind = "resolved"
        /\ Len(calls[r]) = 1
        /\ calls[r][1].messages[3].content = <<104, 105>>

\* The first choice of a returned response has no text: the choice list is
\* missing or empty, the choice has no message, or the content is missing,
\* null, empty or only whitespace.
NoText(chatResponse) ==
    \/ chatResponse.choices = Undefined
    \/ chatResponse.choices.items = <<>>
    \/ chatResponse.choices.items[1].message = Undefined
    \/ chatResponse.choices.items[1].message.content \in {Undefined, Null}
    \/ IsBlank(chatResponse.choices.items[1].message.content.v)

\* C3: when the upstream call returns without text in its first choice the
\* response is 502 {"error": "No answer from model"}; a 200 is sent only
\* for a returned call with text, and its answer is that text trimmed.
C3_NoAnswerIs502 ==
    \A r \in Requests :
        /\ reqs[r].outcome.kind = "resolved" =>
              IF NoText(reqs[r].outcome.value)
              THEN responses[r] =
                     << [status |-> 502, body |-> [error |-> "No answer from model"]] >>
              ELSE responses[r] =
                     << [status |-> 200,
                         body |-> [answer |-> Stripped(
                             reqs[r].outcome.value.choices.items[1].message.content.v)]] >>
        /\ \A i \in 1..Len(responses[r]) :
              responses[r][i].status = 200 =>
                  /\ reqs[r].outcome.kind = "resolved"
                  /\ ~NoText(reqs[r].outcome.value)

\* A returned call whose first content is only whitespace, answered 502,
\* and one with text, answered 200.
C3_Witness ==
    \E r, q \in Requests :
        /\ reqs[r].outcome.kind = "resolved"
        /\ reqs[r].outcome.value = [choices |-> Arr(<< Choice(Content(Str(<<32, 10>>))) >>)]
        /\ responses[r][1].status = 502
        /\ reqs[q].outcome.kind = "resolved"
        /\ responses[q][1].status = 200

\* A property of the thrown value that is there: not missing, not null and
\* not the empty string.
Present(v) == v \notin {Undefined, Null, Str("")}

\* The service's error payload of a thrown value.
PayloadOf(err) == IF err.response = Undefined THEN Undefined ELSE err.response.data

\* C4: when the upstream call throws, the response is 500 and its error is
\* the service's payload if there is one, else the exception's message if
\* there is one, else the stringified exception (an object payload as its
\* JSON text); the same detail is logged; the call is not issued again.
C4_UpstreamFailureIs500 ==
    \A r \in Requests :
        reqs[r].outcome.kind = "rejected" =>
            LET err == reqs[r].outcome.value
                detail == IF Present(PayloadOf(err)) THEN PayloadOf(err)
                          ELSE IF Present(err.message) THEN err.message
                          ELSE Str(err.string)
                shown == IF detail.t = "object" THEN detail.json ELSE detail.v
            IN  /\ responses[r] = << [status |-> 500, body |-> [error |-> shown]] >>
                /\ \E i \in 1..Len(console) : console[i] = <<"LLM error:", detail>>
                /\ Len(calls[r]) = 1

\* A failed call whose thrown value carries both a payload and a message,
\* and one that carries an empty payload and a message.
C4_Witness ==
    \E r, q \in Requests :
        /\ reqs[r].outcome.kind = "rejected"
        /\ Present(PayloadOf(reqs[r].outcome.value))
        /\ Present(reqs[r].outcome.value.message)
        /\ responses[r][1].status = 500
        /\ reqs[q].outcome.kind = "rejected"
        /\ PayloadOf(reqs[q].outcome.value) = Str("")
        /\ responses[q][1].body.error = "Request failed"

\* What is kept for request r.
Slot(r) == <<reqs[r], calls[r], responses[r]>>

\* Requests r and q got the same message and the same upstream outcome.
SameInputs(r, q) ==
    /\ reqs[r].pc = "done" /\ reqs[q].pc = "done"
    /\ reqs[r].message = reqs[q].message
    /\ reqs[r].outcome = reqs[q].outcome

\* Every step is a step of one request and touches nothing kept for
\* another; the shared configuration is never written.
OneRequestPerStep ==
    /\ \E r \in Requests : \A q \in Requests \ {r} : Slot(q)' = Slot(q)
    /\ UNCHANGED <<env, ALLOWED_POINT, MODEL>>

\* C9: under any interleaving, a request's response and upstream messages
\* are determined by its own message and its own upstream outcome; a step
\* of one request changes nothing of another, and topic, model name and
\* system prompt stay as they were at startup.
C9_RequestsIndependent ==
    /\ [](\A r, q \in Requests :
            SameInputs(r, q) =>
                /\ responses[r] = responses[q]
                /\ calls[r] = calls[q])
    /\ [][OneRequestPerStep]_vars

\* Two requests in flight together, settled in the reverse order of their
\* arrival with different outcomes.
C9_Witness ==
    /\ reqs[1].pc = "awaiting"
    /\ reqs[2].pc = "done"
    /\ reqs[2].outcome.kind = "rejected"
    /\ reqs[1].message # reqs[2].message

Statuses == {200, 400, 502, 500}

\* The message makes line 66 throw: it is truthy and has no trim method.
ThrowsBeforeCall(m) == m.t = "number" /\ m.n # 0

\* C10: a handled request has exactly one response, with status 200, 400,
\* 502 or 500; no response is sent while the upstream call is pending; a
\* failure raised before the call yields a 500 and no call.
C10_ExactlyOneResponse ==
    \A r \in Requests :
        /\ reqs[r].pc = "done" =>
              /\ Len(responses[r]) = 1
              /\ responses[r][1].status \in Statuses
        /\ reqs[r].pc # "done" => responses[r] = <<>>
        /\ (calls[r] # <<>> /\ responses[r] # <<>>) => reqs[r].outcome.kind # "none"
        /\ (Received(r) /\ ThrowsBeforeCall(reqs[r].message)) =>
              /\ Len(responses[r]) = 1
              /\ responses[r][1].status = 500
              /\ calls[r] = <<>>

\* A request whose message is the number 5, answered 500 without a call,
\* beside a request whose call failed.
C10_Witness ==
    \E r, q \in Requests :
        /\ reqs[r].pc = "done" /\ reqs[r].message = Num(5)
        /\ responses[r][1].status = 500
        /\ reqs[q].outcome.kind = "rejected"
        /\ Len(responses[q]) = 1

-----------------------------------------------------------------------------
(* The claim about startup.                                                *)

\* What holds of every state of the listen loop.
ListenInv ==
    /\ proc = "listening" =>
          /\ port \in BASE_PORT .. BASE_PORT + 5
          /\ attempts[Len(attempts)] = port
          /\ exitCode = -1
    /\ proc = "exited" => exitCode # 0 /\ exitCode # -1
    /\ Len(attempts) <= 6
    /\ \A i \in 1..Len(attempts) : attempts[i] = BASE_PORT + (i - 1)
    /\ Len(attempts) <= Len(errors) + 1
    /\ \A i \in 1..Len(errors) : i < Len(attempts) => errors[i] = "EADDRINUSE"
    /\ (errors # <<>> /\ (errors[Len(errors)] # "EADDRINUSE" \/ Len(errors) = 6)) =>
          /\ proc = "exited"
          /\ Len(attempts) = Len(errors)

ListenDone == proc \in {"listening", "exited"}

\* C8: startup ends listening on a port in BASE_PORT .. BASE_PORT + 5 or
\* exited with a non-zero status, and stays there. The ports tried are
\* consecutive from BASE_PORT, at most 6; every attempt but the first
\* follows an address-in-use failure; any other failure, or the 6th
\* address-in-use failure, exits with no further attempt.
C8_ListenOutcome ==
    /\ []ListenInv
    /\ [][ListenDone => (proc' = proc /\ port' = port /\ attempts' = attempts)]_vars
    /\ <>ListenDone

\* Listening on the sixth port, after five address-in-use failures.
C8_Witness ==
    /\ proc = "listening"
    /\ Len(attempts) = 6
    /\ port = BASE_PORT + 5
    /\ Len(errors) = 5

=============================================================================
